---- MODULE Spec2Model ----
(***************************************************************************)
(* A model of src/src/aho_corasick/aho_corasick.hpp: the interval tree and *)
(* the Aho-Corasick trie (basic_trie) with its lazy post-processing.       *)
(*                                                                         *)
(* Characters are their ASCII codes, a string is a sequence of codes and   *)
(* text offsets are 0-based as in the source.  A state of the trie is      *)
(* addressed by its path from the root (the root is the empty path): the   *)
(* trie owns its states as a tree and never frees one, so a path names     *)
(* exactly one state object.  d_depth is the length of the path and        *)
(* d_parent the path without its last character.                           *)
(***************************************************************************)
EXTENDS Integers, Sequences, FiniteSets, TLC

\* ------------------------------------------------------------------ bounds

\* Spec: most keywords the trie accepts, and the longest text scanned.
MaxKeywords == 2
MaxTextLen == 2
\* SpecMatch: most keywords the trie accepts, and the longest text scanned.
MatchKeywords == 2
MatchTextLen == 4
\* SpecWords: the longest text scanned besides the two sentences.
WordTextLen == 3
\* Most intervals of a collection handed to the interval tree.
MaxIntervals == 3
\* Largest offset of an interval handed to the interval tree.
MaxPos == 2
\* SpecFail: most keywords the trie accepts.
FailKeywords == 2
\* SpecTokens: the longest text cut into tokens.
TokenTextLen == 3
\* The longest range handed to insert(first, last), and how many elements
\* past last a run is followed.
MaxRange == 2
PastLast == 1
\* The most keywords a run of inserts alone gets accepted.
MaxInserts == 3

\* --------------------------------------------------------------- sequences

RECURSIVE SeqsUpTo(_, _)
\* All sequences over S of length 0..n.
SeqsUpTo(S, n) ==
    IF n = 0 THEN {<<>>}
    ELSE LET shorter == SeqsUpTo(S, n - 1)
         IN  shorter \cup {Append(s, x) : s \in {t \in shorter : Len(t) = n - 1}, x \in S}

Range(s) == {s[k] : k \in 1..Len(s)}

\* s without its k-th element.
RemoveAt(s, k) == SubSeq(s, 1, k - 1) \o SubSeq(s, k + 1, Len(s))

RECURSIVE AscendingSeq(_)
\* The elements of a finite set of integers in ascending order: the
\* iteration order of a std::map over its keys.
AscendingSeq(S) ==
    IF S = {} THEN <<>>
    ELSE LET m == CHOOSE x \in S : \A y \in S : x <= y
         IN  <<m>> \o AscendingSeq(S \ {m})

\* ------------------------------------------------------------- characters

\* std::tolower in the "C" locale.
tolower(c) == IF c \in 65..90 THEN c + 32 ELSE c

\* std::isalpha in the "C" locale.
isalpha(c) == c \in 65..90 \/ c \in 97..122

lower_text(text) == [k \in 1..Len(text) |-> tolower(text[k])]

\* ------------------------------------------------------------------ state

Root == <<>>
\* nullptr: no path, a character code is never negative.
NullPtr == <<-1>>

\* state::state(size_t depth): index 0, no failure link, no emits.
new_state == [d_idx |-> 0, d_failure |-> NullPtr, d_emits |-> <<>>]

\* transition_map::find: the child of s on character c, or nullptr.
find(T, s, c) == IF Append(s, c) \in DOMAIN T THEN Append(s, c) ELSE NullPtr

\* state::next_state(character, ignore_root_state): only the root has a
\* non-null d_root, so only the root answers a missing transition with itself.
next_state(T, s, c, ignore_root_state) ==
    LET result == find(T, s, c)
    IN  IF result = NullPtr /\ ~ignore_root_state /\ s = Root THEN Root ELSE result

\* transition_map::get_transitions: the characters of the outgoing
\* transitions in key order.
get_transitions(T, s) ==
    AscendingSeq({p[Len(p)] : p \in {q \in DOMAIN T : Len(q) = Len(s) + 1
                                                     /\ SubSeq(q, 1, Len(s)) = s}})

\* transition_map::get_states: the children in key order.
get_states(T, s) ==
    LET tr == get_transitions(T, s) IN [k \in 1..Len(tr) |-> Append(s, tr[k])]

\* state::goto_transition_count
goto_transition_count(T, s) == Len(get_transitions(T, s))

\* The states state::add_state creates along keyword: every prefix of it
\* that is not a state yet.
add_states(T, keyword) ==
    LET prefixes == {SubSeq(keyword, 1, k) : k \in 0..Len(keyword)}
    IN  [p \in DOMAIN T \cup prefixes |-> IF p \in DOMAIN T THEN T[p] ELSE new_state]

\* ------------------------------------------------------- post-processing

RECURSIVE dfs_order(_, _, _)
\* A traversal that takes the children of a state before its siblings.
dfs_order(T, q, visited) ==
    IF q = <<>> THEN visited
    ELSE dfs_order(T, get_states(T, Head(q)) \o Tail(q), Append(visited, Head(q)))

RECURSIVE bfs_order(_, _, _)
\* The order in which assign_indices (and remove_prefixes) takes the states
\* off its queue q; visited are the states taken so far.
bfs_order(T, q, visited) ==
    IF q = <<>> THEN visited
    ELSE bfs_order(T, Tail(q) \o get_states(T, Head(q)), Append(visited, Head(q)))

\* basic_trie::assign_indices: the states with their BFS indices.
assign_indices(T) ==
    LET order == bfs_order(T, <<Root>>, <<>>)
    IN  [p \in DOMAIN T |->
            IF \E k \in 1..Len(order) : order[k] = p
            THEN [T[p] EXCEPT !.d_idx = (CHOOSE k \in 1..Len(order) : order[k] = p) - 1]
            ELSE T[p]]

\* The assertion of remove_prefixes_from_state fails for some state.
emit_count_assertion_fails(T) == \E p \in DOMAIN T : ~(Len(T[p].d_emits) < 2)

\* A keyword that is the prefix of another keeps its emit.
keep_prefixes(T, cur_state) == T

\* basic_trie::remove_prefixes_from_state
remove_prefixes_from_state(T, cur_state) ==
    IF goto_transition_count(T, cur_state) > 0 /\ Len(T[cur_state].d_emits) > 0
    THEN [T EXCEPT ![cur_state].d_emits = <<>>]
    ELSE T

RECURSIVE remove_prefixes_from(_, _)
remove_prefixes_from(T, order) ==
    IF order = <<>> THEN T
    ELSE remove_prefixes_from(remove_prefixes_from_state(T, Head(order)), Tail(order))

\* basic_trie::remove_prefixes: both branches visit the states in BFS order.
remove_prefixes(T) == remove_prefixes_from(T, bfs_order(T, <<Root>>, <<>>))

\* A fall-back that goes to the root at once.
fall_back_to_root(T, trace, c) == Root

RECURSIVE fall_back(_, _, _)
\* The inner loop of construct_failure_states: follow failure links from
\* trace until a state answers character c.  NullPtr: a null link was
\* followed and dereferenced.
fall_back(T, trace, c) ==
    IF trace = NullPtr THEN NullPtr
    ELSE IF next_state(T, trace, c, FALSE) = NullPtr
         THEN fall_back(T, T[trace].d_failure, c)
         ELSE trace

\* Result of a step that may dereference a null pointer.
Crashed(T) == [crashed |-> TRUE, states |-> T]
Fine(T) == [crashed |-> FALSE, states |-> T]

\* A state that takes over no emit of its failure state.
add_emit_nothing(own, emits) == own

\* state::add_emit(const string_collection&): append the emits.
add_emit(own, emits) == own \o emits

RECURSIVE set_failure_of(_, _, _, _, _)
\* The while (true) loop of construct_failure_states for target_state, the
\* child of cur_state on character c, with trace the failure state looked at.
set_failure_of(T, allow_substrings, target_state, trace, c) ==
    LET trace_failure_state == fall_back(T, trace, c) IN
    IF trace_failure_state = NullPtr THEN Crashed(T)
    ELSE LET new_failure_state == next_state(T, trace_failure_state, c, FALSE) IN
         IF ~allow_substrings /\ Len(T[new_failure_state].d_emits) > 0
         THEN set_failure_of([T EXCEPT ![new_failure_state].d_emits = <<>>],
                             allow_substrings, target_state,
                             T[trace_failure_state].d_failure, c)
         ELSE Fine([T EXCEPT ![target_state] =
                       [@ EXCEPT !.d_failure = new_failure_state,
                                 !.d_emits = add_emit(@, T[new_failure_state].d_emits)]])

RECURSIVE for_transitions(_, _, _, _)
\* The for loop of construct_failure_states over the transitions of cur_state.
for_transitions(T, allow_substrings, cur_state, transitions) ==
    IF transitions = <<>> THEN Fine(T)
    ELSE LET c == Head(transitions)
             r == set_failure_of(T, allow_substrings, next_state(T, cur_state, c, FALSE),
                                 T[cur_state].d_failure, c)
         IN  IF r.crashed THEN r
             ELSE for_transitions(r.states, allow_substrings, cur_state, Tail(transitions))

RECURSIVE failure_queue(_, _, _)
\* The while (!q.empty()) loop of construct_failure_states.
failure_queue(T, allow_substrings, q) ==
    IF q = <<>> THEN Fine(T)
    ELSE LET cur_state == Head(q)
             r == for_transitions(T, allow_substrings, cur_state, get_transitions(T, cur_state))
         IN  IF r.crashed THEN r
             ELSE failure_queue(r.states, allow_substrings,
                                Tail(q) \o get_states(T, cur_state))

\* basic_trie::construct_failure_states
construct_failure_states(T, allow_substrings) ==
    LET depth_one == get_states(T, Root)
        T1 == [p \in DOMAIN T |->
                  IF p \in Range(depth_one) THEN [T[p] EXCEPT !.d_failure = Root] ELSE T[p]]
    IN  failure_queue(T1, allow_substrings, depth_one)


\* -------------------------------------------------------------- intervals

\* interval::size
size(i) == i.d_end - i.d_start + 1

\* interval::overlaps_with(const interval&)
overlaps_with(a, b) == a.d_start <= b.d_end /\ a.d_end >= b.d_start

\* interval::operator<
less(a, b) == a.d_start < b.d_start

\* interval::operator==
equal(a, b) == a.d_start = b.d_start /\ a.d_end = b.d_end

\* interval::operator!=
not_equal(a, b) == a.d_start /= b.d_start \/ a.d_end /= b.d_end

\* The value of (start + end) / 2 in determine_median when the collection is
\* empty: both stay max_pos, the sum wraps, and the median is half of it, a
\* point to the right of every offset.  Written as the largest number TLC has.
median_of_nothing == 2147483647

\* interval_tree::node::determine_median
determine_median(intervals) ==
    IF intervals = <<>> THEN median_of_nothing
    ELSE LET start == CHOOSE x \in {intervals[k].d_start : k \in 1..Len(intervals)} :
                         \A k \in 1..Len(intervals) : x <= intervals[k].d_start
             end == CHOOSE x \in {intervals[k].d_end : k \in 1..Len(intervals)} :
                       \A k \in 1..Len(intervals) : x >= intervals[k].d_end
         IN  (start + end) \div 2

\* A node_ptr is <<>> (null) or <<node>>.
end_below(i, d_point) == i.d_end < d_point
start_above(i, d_point) == ~(i.d_end < d_point) /\ i.d_start > d_point
at_point(i, d_point) == ~(i.d_end < d_point) /\ ~(i.d_start > d_point)

RECURSIVE node(_)
\* interval_tree::node::node
node(intervals) ==
    LET d_point == determine_median(intervals)
        to_left == SelectSeq(intervals, LAMBDA i : end_below(i, d_point))
        to_right == SelectSeq(intervals, LAMBDA i : start_above(i, d_point))
    IN  [d_point |-> d_point,
         d_left |-> IF Len(to_left) > 0 THEN <<node(to_left)>> ELSE <<>>,
         d_right |-> IF Len(to_right) > 0 THEN <<node(to_right)>> ELSE <<>>,
         d_intervals |-> SelectSeq(intervals, LAMBDA i : at_point(i, d_point))]

\* The new overlaps appended, the query interval among them.
add_to_overlaps_all(i, overlaps, new_overlaps) == overlaps \o new_overlaps

\* interval_tree::node::add_to_overlaps
add_to_overlaps(i, overlaps, new_overlaps) ==
    overlaps \o SelectSeq(new_overlaps, LAMBDA cur : not_equal(cur, i))

\* Every interval of the node, whatever side the query lies on.
check_overlaps_unchecked(n, i, d) == n.d_intervals

\* interval_tree::node::check_overlaps
check_overlaps(n, i, d) ==
    SelectSeq(n.d_intervals,
              LAMBDA cur : IF d = "LEFT" THEN cur.d_start <= i.d_end
                                         ELSE cur.d_end >= i.d_start)

RECURSIVE find_overlaps(_, _)
\* interval_tree::node::find_overlapping_ranges
find_overlapping_ranges(node_ptr, i) ==
    IF node_ptr /= <<>> THEN find_overlaps(node_ptr[1], i) ELSE <<>>

\* interval_tree::node::find_overlaps
find_overlaps(n, i) ==
    IF n.d_point < i.d_start
    THEN add_to_overlaps(i, add_to_overlaps(i, <<>>, find_overlapping_ranges(n.d_right, i)),
                         check_overlaps(n, i, "RIGHT"))
    ELSE IF n.d_point > i.d_end
    THEN add_to_overlaps(i, add_to_overlaps(i, <<>>, find_overlapping_ranges(n.d_left, i)),
                         check_overlaps(n, i, "LEFT"))
    ELSE add_to_overlaps(i,
             add_to_overlaps(i, add_to_overlaps(i, <<>>, n.d_intervals),
                             find_overlapping_ranges(n.d_left, i)),
             find_overlapping_ranges(n.d_right, i))

\* Smaller intervals first, whatever the order asked for.
smaller_first(order, a, b) == size(a) < size(b)

\* The comparators handed to std::sort in remove_overlaps: by size, larger
\* first, equal sizes by start, later first; and by start, earlier first.
comes_before(order, a, b) ==
    IF order = "by_size"
    THEN IF size(b) - size(a) = 0 THEN a.d_start > b.d_start ELSE size(a) > size(b)
    ELSE a.d_start < b.d_start

RECURSIVE sorted_into(_, _, _)
\* The elements of s put one by one into the sorted sequence done, each
\* behind the elements it does not come before.
sorted_into(done, s, order) ==
    IF s = <<>> THEN done
    ELSE LET x == Head(s)
         IN  sorted_into(SelectSeq(done, LAMBDA e : ~comes_before(order, x, e)) \o <<x>>
                         \o SelectSeq(done, LAMBDA e : comes_before(order, x, e)),
                         Tail(s), order)

\* s sorted by the comparator, elements the comparator does not order left in
\* the order they have in s.
stable_sort(s, order) == sorted_into(<<>>, s, order)

reverse(s) == [k \in 1..Len(s) |-> s[Len(s) + 1 - k]]

\* std::sort: the order of elements the comparator does not order is
\* unspecified; ties says what the library does with them.
std_sort(s, order, ties) ==
    IF ties = "kept" THEN stable_sort(s, order) ELSE stable_sort(reverse(s), order)

\* std::set<T>::find with T's operator<: an element neither less nor greater.
set_find(remove_tmp, i) ==
    \E k \in 1..Len(remove_tmp) : ~less(remove_tmp[k], i) /\ ~less(i, remove_tmp[k])

\* std::set<T>::insert: nothing when an equivalent element is in the set.
\* The set is held as the sequence of its elements in iteration order.
set_insert(remove_tmp, i) ==
    IF set_find(remove_tmp, i) THEN remove_tmp
    ELSE SelectSeq(remove_tmp, LAMBDA x : less(x, i)) \o <<i>>
         \o SelectSeq(remove_tmp, LAMBDA x : less(i, x))

RECURSIVE set_insert_all(_, _)
set_insert_all(remove_tmp, overlaps) ==
    IF overlaps = <<>> THEN remove_tmp
    ELSE set_insert_all(set_insert(remove_tmp, Head(overlaps)), Tail(overlaps))

RECURSIVE mark_overlaps(_, _, _)
\* The first loop of remove_overlaps over the sorted result.
mark_overlaps(tree, result, remove_tmp) ==
    IF result = <<>> THEN remove_tmp
    ELSE IF set_find(remove_tmp, Head(result))
         THEN mark_overlaps(tree, Tail(result), remove_tmp)
         ELSE mark_overlaps(tree, Tail(result),
                            set_insert_all(remove_tmp, find_overlaps(tree, Head(result))))

\* result.erase(std::find(result.begin(), result.end(), i)): the first
\* element equal to i goes.  Every i erased is an element of result.
erase_found(result, i) ==
    LET found == {k \in 1..Len(result) : equal(result[k], i)}
    IN  IF found = {} THEN result
        ELSE RemoveAt(result, CHOOSE k \in found : \A j \in found : k <= j)

RECURSIVE erase_all(_, _)
erase_all(result, to_erase) ==
    IF to_erase = <<>> THEN result
    ELSE erase_all(erase_found(result, Head(to_erase)), Tail(to_erase))

\* interval_tree::remove_overlaps on the tree built over the collection.
remove_overlaps_of(tree, intervals, ties) ==
    LET result == std_sort(intervals, "by_size", ties)
        remove_tmp == mark_overlaps(tree, result, <<>>)
    IN  std_sort(erase_all(result, remove_tmp), "by_start", ties)

\* ------------------------------------------------------------------- scan

RECURSIVE get_state(_, _, _)
\* basic_trie::get_state.  NullPtr: a null failure link was dereferenced.
get_state(T, cur_state, c) ==
    IF cur_state = NullPtr THEN NullPtr
    ELSE LET result == next_state(T, cur_state, c, FALSE)
         IN  IF result = NullPtr THEN get_state(T, T[cur_state].d_failure, c) ELSE result

\* Matches that start one offset early.
store_emits_early(pos, emits) ==
    [k \in 1..Len(emits) |->
        [d_start |-> pos - Len(emits[k][1]), d_end |-> pos,
         d_keyword |-> emits[k][1], d_index |-> emits[k][2]]]

\* basic_trie::store_emits: the emits of cur_state as matches ending at pos.
store_emits(pos, emits) ==
    [k \in 1..Len(emits) |->
        [d_start |-> pos - Len(emits[k][1]) + 1, d_end |-> pos,
         d_keyword |-> emits[k][1], d_index |-> emits[k][2]]]

RECURSIVE scan_from(_, _, _, _, _, _)
\* The for loop of parse_text from offset pos on.
scan_from(T, case_insensitive, text, pos, cur_state, collected_emits) ==
    IF pos = Len(text) THEN [crashed |-> FALSE, emits |-> collected_emits]
    ELSE LET c == IF case_insensitive THEN tolower(text[pos + 1]) ELSE text[pos + 1]
             next == get_state(T, cur_state, c)
         IN  IF next = NullPtr THEN [crashed |-> TRUE, emits |-> collected_emits]
             ELSE scan_from(T, case_insensitive, text, pos + 1, next,
                            collected_emits \o store_emits(pos, T[next].d_emits))

\* An emit stays when no letter comes before it, whatever follows.
whole_word_start(search_text, e) ==
    e.d_start = 0 \/ ~isalpha(search_text[e.d_start])

\* The condition of remove_partial_matches under which an emit stays.
whole_word(search_text, e) ==
    /\ (e.d_start = 0 \/ ~isalpha(search_text[e.d_start]))
    /\ (e.d_end + 1 = Len(search_text) \/ ~isalpha(search_text[e.d_end + 2]))

\* basic_trie::remove_partial_matches
remove_partial_matches(search_text, collected_emits) ==
    erase_all(collected_emits,
              SelectSeq(collected_emits, LAMBDA e : ~whole_word(search_text, e)))

\* basic_trie::parse_text after check_postprocess.
parse_compiled(T, cfg, text, ties) ==
    LET scanned == scan_from(T, cfg.d_case_insensitive, text, 0, Root, <<>>)
        whole == IF cfg.d_only_whole_words
                 THEN remove_partial_matches(text, scanned.emits) ELSE scanned.emits
    IN  IF scanned.crashed THEN scanned
        ELSE [crashed |-> FALSE,
              emits |-> IF ~cfg.d_allow_overlaps
                        THEN remove_overlaps_of(node(whole), whole, ties) ELSE whole]


\* -------------------------------------------------------------- variables

VARIABLES
    states,                      \* the states of the trie: path -> state fields
    d_config,                    \* basic_trie::d_config
    d_postprocessed,             \* basic_trie::d_postprocessed
    d_num_keywords,              \* basic_trie::d_num_keywords
    d_state_count,               \* basic_trie::d_state_count
    d_states_in_bfs_order,       \* basic_trie::d_states_in_bfs_order
    d_final_states_in_bfs_order, \* basic_trie::d_final_states_in_bfs_order
    sort_ties,                   \* what the library's std::sort does with ties
    halted,                      \* "no", or how the process ended
    op,                          \* the member function called last
    ret,                         \* what it returned, when it was insert
    text,                        \* its argument, when it was parse_text or tokenise
    collected,                   \* the emits parse_text returned, to the caller or to tokenise
    tokens,                      \* what it returned, when it was tokenise
    inserted,                    \* the keywords accepted so far, in index order
    config_at_postprocess,       \* d_config when the post-processing ran
    intervals,                   \* the collection an interval_tree is built over
    tree_op,                     \* the interval_tree member called last
    tree_arg,                    \* the interval handed to find_overlaps
    tree_ret,                    \* what the interval_tree member returned
    scanners,                    \* the parse_text calls that run side by side
    range_call                   \* the call of insert(first, last), if there is one

trie_vars == <<states, d_config, d_postprocessed, d_num_keywords, d_state_count,
               d_states_in_bfs_order, d_final_states_in_bfs_order, halted, op, ret,
               text, collected, tokens, inserted, config_at_postprocess>>
tree_vars == <<intervals, tree_op, tree_arg, tree_ret>>
scan_vars == <<scanners>>
range_vars == <<range_call>>
vars == <<trie_vars, tree_vars, scan_vars, range_vars, sort_ties>>

\* The threads that call parse_text on one automaton.
Threads == {1, 2}

\* A thread that is in no call of parse_text and has returned from none.
no_call == [pc |-> "idle", text |-> <<>>, pos |-> 0, cur_state |-> Root,
            collected_emits |-> <<>>]

\* No call of insert(first, last) yet.
no_range == [pc |-> "idle", range |-> <<>>, first |-> 0, last |-> 0, it |-> 0]

\* basic_trie::config::config
config == [d_allow_overlaps |-> TRUE, d_only_whole_words |-> FALSE,
           d_case_insensitive |-> FALSE, d_allow_substrings |-> TRUE,
           d_store_states_in_bfs_order |-> FALSE]

\* basic_trie::basic_trie(), and no interval collection yet.
Init ==
    /\ states = [p \in {Root} |-> new_state]
    /\ d_config = config
    /\ d_postprocessed = FALSE
    /\ d_num_keywords = 0
    /\ d_state_count = 0
    /\ d_states_in_bfs_order = <<>>
    /\ d_final_states_in_bfs_order = <<>>
    /\ sort_ties \in {"kept", "reversed"}
    /\ halted = "no"
    /\ op = "basic_trie"
    /\ ret = NullPtr
    /\ text = <<>>
    /\ collected = <<>>
    /\ tokens = <<>>
    /\ inserted = <<>>
    /\ config_at_postprocess = config
    /\ intervals = <<>>
    /\ tree_op = "none"
    /\ tree_arg = <<>>
    /\ tree_ret = <<>>
    /\ scanners = [t \in Threads |-> no_call]
    /\ range_call = no_range

\* ---------------------------------------------------------------- setters

\* A call that is not insert leaves no handle, one that is not parse_text no
\* text and no emits.
NoInsert == ret' = NullPtr
NoParse == text' = <<>> /\ collected' = <<>> /\ tokens' = <<>>

Setter(new_config) ==
    /\ halted = "no"
    /\ d_config' = new_config
    /\ op' = "config"
    /\ NoInsert /\ NoParse
    /\ UNCHANGED <<states, d_postprocessed, d_num_keywords, d_state_count,
                   d_states_in_bfs_order, d_final_states_in_bfs_order, halted,
                   inserted, config_at_postprocess, tree_vars, scan_vars, range_vars, sort_ties>>

\* basic_trie::case_insensitive
case_insensitive ==
    Setter([d_config EXCEPT !.d_case_insensitive = TRUE])

\* basic_trie::remove_overlaps
remove_overlaps ==
    Setter([d_config EXCEPT !.d_allow_overlaps = FALSE])

\* basic_trie::only_whole_words
only_whole_words ==
    Setter([d_config EXCEPT !.d_only_whole_words = TRUE])

\* basic_trie::remove_substrings
remove_substrings ==
    Setter([d_config EXCEPT !.d_allow_substrings = FALSE])

\* basic_trie::store_states_in_bfs_order
store_states_in_bfs_order ==
    Setter([d_config EXCEPT !.d_store_states_in_bfs_order = TRUE])

\* ----------------------------------------------------------------- insert

\* An insert that takes every keyword, also one whose state has an emit.
insert_always(T, num_keywords, allow_substrings, keyword) ==
    IF keyword = <<>>
    THEN [ret |-> Root, states |-> T, d_num_keywords |-> num_keywords]
    ELSE [ret |-> keyword,
          states |-> [add_states(T, keyword) EXCEPT ![keyword].d_emits =
                          Append(@, <<keyword, num_keywords>>)],
          d_num_keywords |-> num_keywords + 1]

\* An insert that stores the empty keyword at the root like any other.
insert_at_root(T, num_keywords, allow_substrings, keyword) ==
    LET added == add_states(T, keyword)
    IN  IF Len(added[keyword].d_emits) = 0 \/ allow_substrings
        THEN [ret |-> keyword,
              states |-> [added EXCEPT ![keyword].d_emits =
                              Append(@, <<keyword, num_keywords>>)],
              d_num_keywords |-> num_keywords + 1]
        ELSE [ret |-> NullPtr, states |-> added, d_num_keywords |-> num_keywords]

\* An insert whose rejected keyword takes an index all the same.
insert_counting_rejected(T, num_keywords, allow_substrings, keyword) ==
    IF keyword = <<>>
    THEN [ret |-> Root, states |-> T, d_num_keywords |-> num_keywords]
    ELSE LET added == add_states(T, keyword)
         IN  IF Len(added[keyword].d_emits) = 0 \/ allow_substrings
             THEN [ret |-> keyword,
                   states |-> [added EXCEPT ![keyword].d_emits =
                                   Append(@, <<keyword, num_keywords>>)],
                   d_num_keywords |-> num_keywords + 1]
             ELSE [ret |-> NullPtr, states |-> added,
                   d_num_keywords |-> num_keywords + 1]

\* basic_trie::insert(string_type keyword): what it returns and what it
\* leaves in the trie.
insert(T, num_keywords, allow_substrings, keyword) ==
    IF keyword = <<>>
    THEN [ret |-> Root, states |-> T, d_num_keywords |-> num_keywords]
    ELSE LET added == add_states(T, keyword)
             cur_state == keyword
         IN  IF Len(added[cur_state].d_emits) = 0 \/ allow_substrings
             THEN [ret |-> cur_state,
                   states |-> [added EXCEPT ![cur_state].d_emits =
                                   Append(@, <<keyword, num_keywords>>)],
                   d_num_keywords |-> num_keywords + 1]
             ELSE [ret |-> NullPtr, states |-> added, d_num_keywords |-> num_keywords]

Insert(keyword) ==
    /\ halted = "no"
    /\ LET r == insert(states, d_num_keywords, d_config.d_allow_substrings, keyword)
       IN  /\ states' = r.states
           /\ d_num_keywords' = r.d_num_keywords
           /\ ret' = r.ret
           /\ inserted' = IF r.d_num_keywords > d_num_keywords
                          THEN Append(inserted, keyword) ELSE inserted
    /\ op' = "insert"
    /\ NoParse
    /\ UNCHANGED <<d_config, d_postprocessed, d_state_count, d_states_in_bfs_order,
                   d_final_states_in_bfs_order, halted, config_at_postprocess,
                   tree_vars, scan_vars, range_vars, sort_ties>>

\* ------------------------------------------------------- check_postprocess

\* The states that carry an emit, in BFS order (check_postprocess, the loop
\* over d_states_in_bfs_order).
final_states(T, order) == SelectSeq(order, LAMBDA s : Len(T[s].d_emits) > 0)

\* The automaton fields as one record.
automaton == [halted |-> "no", states |-> states, d_postprocessed |-> d_postprocessed,
              d_state_count |-> d_state_count,
              d_states_in_bfs_order |-> d_states_in_bfs_order,
              d_final_states_in_bfs_order |-> d_final_states_in_bfs_order]

\* The body of check_postprocess when d_postprocessed is false, run to its
\* end: what it leaves in the automaton, or "segv" when it follows a null
\* failure link.
postprocess(a, cfg) ==
    LET order == bfs_order(a.states, <<Root>>, <<>>)
        indexed == assign_indices(a.states)
        stripped == IF ~cfg.d_allow_substrings THEN remove_prefixes(indexed) ELSE indexed
        linked == construct_failure_states(stripped, cfg.d_allow_substrings)
        in_order == IF cfg.d_store_states_in_bfs_order
                    THEN a.d_states_in_bfs_order \o order ELSE a.d_states_in_bfs_order
    IN  IF linked.crashed THEN [a EXCEPT !.halted = "segv"]
        ELSE [halted |-> "no", states |-> linked.states, d_postprocessed |-> TRUE,
              d_state_count |-> Len(order),
              d_states_in_bfs_order |-> in_order,
              d_final_states_in_bfs_order |->
                  IF cfg.d_store_states_in_bfs_order
                  THEN a.d_final_states_in_bfs_order \o final_states(linked.states, in_order)
                  ELSE a.d_final_states_in_bfs_order]

\* A check_postprocess that does not look at d_postprocessed.
check_postprocess_again(a, cfg) ==
    {[a EXCEPT !.halted = "trap"], postprocess(a, cfg)}

\* basic_trie::check_postprocess: every way it can end.  transition_map's
\* get_states and get_transitions build their result and end without a
\* return statement, which is undefined: the call yields the collection it
\* built, or the process stops at the end of the function ("trap").  A build
\* with assertions stops at a failing assert ("assert"), one without goes on.
check_postprocess(a, cfg) ==
    IF a.d_postprocessed THEN {a}
    ELSE {[a EXCEPT !.halted = "trap"]}
         \cup (IF ~cfg.d_allow_substrings /\ emit_count_assertion_fails(a.states)
               THEN {[a EXCEPT !.halted = "assert"]} ELSE {})
         \cup {postprocess(a, cfg)}

\* The process has ended: nothing of it is left to look at, and the model
\* keeps the last values.
Halt(how) ==
    /\ halted' = how
    /\ UNCHANGED <<states, d_config, d_postprocessed, d_num_keywords, d_state_count,
                   d_states_in_bfs_order, d_final_states_in_bfs_order, op, ret, text,
                   collected, tokens, inserted, config_at_postprocess, tree_vars, scan_vars,
                   range_vars, sort_ties>>

\* The automaton fields after a call that ran check_postprocess to its end.
Postprocessed(a) ==
    /\ states' = a.states
    /\ d_postprocessed' = a.d_postprocessed
    /\ d_state_count' = a.d_state_count
    /\ d_states_in_bfs_order' = a.d_states_in_bfs_order
    /\ d_final_states_in_bfs_order' = a.d_final_states_in_bfs_order
    /\ config_at_postprocess' =
           IF a.d_postprocessed /\ ~d_postprocessed THEN d_config
           ELSE config_at_postprocess
    /\ UNCHANGED <<d_config, d_num_keywords, inserted, halted, tree_vars, scan_vars, range_vars, sort_ties>>

CheckPostprocess ==
    /\ halted = "no"
    /\ \E a \in check_postprocess(automaton, d_config) :
          IF a.halted /= "no" THEN Halt(a.halted)
          ELSE /\ Postprocessed(a)
               /\ op' = "check_postprocess"
               /\ NoInsert /\ NoParse

\* ------------------------------------------------- insert(first, last)

\* What can lie behind last, where the range has ended: storage of the
\* caller that reads as some string.
BeyondLast == {<<>>, <<97>>, <<98>>}

\* *it, the argument of insert(*it).  Inside [first, last) it is the element;
\* at last or behind it the read is undefined: the process stops, or the
\* read yields whatever string the storage there holds.
dereference(c) ==
    IF c.it < c.last
    THEN {[halted |-> "no", keyword |-> c.range[c.it - c.first + 1]]}
    ELSE {[halted |-> "segv", keyword |-> <<>>]}
         \cup {[halted |-> "no", keyword |-> k] : k \in BeyondLast}

\* basic_trie::insert(InputIterator first, InputIterator last) is called:
\* InputIterator it = first.
BeginInsertRange(range) ==
    /\ halted = "no"
    /\ range_call.pc /= "loop"
    /\ range_call' = [pc |-> "loop", range |-> range, first |-> 0,
                      last |-> Len(range), it |-> 0]
    /\ op' = "insert_range"
    /\ NoInsert /\ NoParse
    /\ UNCHANGED <<states, d_config, d_postprocessed, d_num_keywords, d_state_count,
                   d_states_in_bfs_order, d_final_states_in_bfs_order, halted,
                   inserted, config_at_postprocess, tree_vars, scan_vars, sort_ties>>

\* One turn of its loop: the test first != last, then insert(*it) and ++it;
\* or the return when the test fails.
InsertRangeStep ==
    /\ halted = "no"
    /\ range_call.pc = "loop"
    /\ IF range_call.first /= range_call.last
       THEN /\ range_call.it < range_call.last + PastLast
            /\ \E d \in dereference(range_call) :
                  IF d.halted /= "no" THEN Halt(d.halted)
                  ELSE LET r == insert(states, d_num_keywords,
                                       d_config.d_allow_substrings, d.keyword)
                       IN  /\ states' = r.states
                           /\ d_num_keywords' = r.d_num_keywords
                           /\ inserted' = IF r.d_num_keywords > d_num_keywords
                                          THEN Append(inserted, d.keyword) ELSE inserted
                           /\ range_call' = [range_call EXCEPT !.it = @ + 1]
                           /\ UNCHANGED <<halted, op, ret, text, collected, tokens>>
       ELSE /\ range_call' = [range_call EXCEPT !.pc = "returned"]
            /\ UNCHANGED <<states, d_num_keywords, inserted, halted, op, ret, text,
                           collected, tokens>>
    /\ UNCHANGED <<d_config, d_postprocessed, d_state_count, d_states_in_bfs_order,
                   d_final_states_in_bfs_order, config_at_postprocess,
                   tree_vars, scan_vars, sort_ties>>

\* -------------------------------------------------------------- parse_text

\* basic_trie::parse_text
ParseText(the_text) ==
    /\ halted = "no"
    /\ \E a \in check_postprocess(automaton, d_config) :
          IF a.halted /= "no" THEN Halt(a.halted)
          ELSE LET r == parse_compiled(a.states, d_config, the_text, sort_ties)
               IN  IF r.crashed THEN Halt("segv")
                   ELSE /\ Postprocessed(a)
                        /\ op' = "parse_text"
                        /\ text' = the_text
                        /\ collected' = r.emits
                        /\ tokens' = <<>>
                        /\ NoInsert

\* ---------------------------------------------------------------- tokenise

\* interval::max_pos, the largest size_t.  Values of type size_t are written
\* as the integer nearest to 0 that is congruent to them modulo 2^64, so
\* max_pos is -1 and max_pos + 1 is 0, as in the unsigned arithmetic.
max_pos == -1

\* emit::emit()
empty_emit == [d_start |-> max_pos, d_end |-> max_pos, d_keyword |-> <<>>, d_index |-> 0]

\* emit::is_empty
is_empty(e) == e.d_start = max_pos /\ e.d_end = max_pos

\* x > 1 for the size_t value x written d: a negative d is a value near 2^64.
above_one(d) == d < 0 \/ d > 1

\* std::basic_string::substr(start, len) with start <= size: the characters
\* from start on, len of them or as many as there are; a negative len is a
\* length near 2^64.
substr(str, start, len) ==
    SubSeq(str, start + 1,
           IF len < 0 \/ start + len > Len(str) THEN Len(str) ELSE start + len)

\* basic_trie::create_fragment
create_fragment(e, the_text, last_pos) ==
    LET start == last_pos + 1
        end == IF is_empty(e) THEN Len(the_text) ELSE e.d_start
        len == end - start
    IN  [d_type |-> "TYPE_FRAGMENT", d_fragment |-> substr(the_text, start, len),
         d_emit |-> empty_emit]

\* basic_trie::create_match
create_match(e, the_text) ==
    LET start == e.d_start
        end == e.d_end + 1
        len == end - start
    IN  [d_type |-> "TYPE_MATCH", d_fragment |-> substr(the_text, start, len),
         d_emit |-> e]

RECURSIVE tokenise_from(_, _, _, _)
\* The for loop of tokenise over the emits left, and the statements after it.
tokenise_from(the_text, collected_emits, last_pos, the_tokens) ==
    IF collected_emits = <<>>
    THEN IF above_one(Len(the_text) - last_pos)
         THEN Append(the_tokens, create_fragment(empty_emit, the_text, last_pos))
         ELSE the_tokens
    ELSE LET e == Head(collected_emits)
             with_fragment == IF above_one(e.d_start - last_pos)
                              THEN Append(the_tokens, create_fragment(e, the_text, last_pos))
                              ELSE the_tokens
         IN  tokenise_from(the_text, Tail(collected_emits), e.d_end,
                           Append(with_fragment, create_match(e, the_text)))

\* basic_trie::tokenise
Tokenise(the_text) ==
    /\ halted = "no"
    /\ \E a \in check_postprocess(automaton, d_config) :
          IF a.halted /= "no" THEN Halt(a.halted)
          ELSE LET r == parse_compiled(a.states, d_config, the_text, sort_ties)
               IN  IF r.crashed THEN Halt("segv")
                   ELSE /\ Postprocessed(a)
                        /\ op' = "tokenise"
                        /\ text' = the_text
                        /\ collected' = r.emits
                        /\ tokens' = tokenise_from(the_text, r.emits, max_pos, <<>>)
                        /\ NoInsert

\* ------------------------------------------------------------ interval_tree

\* The caller puts one more interval into the collection.
PushInterval(i) ==
    /\ Len(intervals) < MaxIntervals
    /\ intervals' = Append(intervals, i)
    /\ tree_op' = "push_back"
    /\ tree_arg' = <<>>
    /\ tree_ret' = <<>>
    /\ UNCHANGED <<trie_vars, scan_vars, range_vars, sort_ties>>

\* interval_tree(intervals).remove_overlaps(intervals)
RemoveOverlaps ==
    /\ tree_ret' = remove_overlaps_of(node(intervals), intervals, sort_ties)
    /\ tree_op' = "remove_overlaps"
    /\ tree_arg' = <<>>
    /\ UNCHANGED <<intervals, trie_vars, scan_vars, range_vars, sort_ties>>

\* interval_tree(intervals).find_overlaps(i)
FindOverlaps(i) ==
    /\ tree_ret' = find_overlaps(node(intervals), i)
    /\ tree_arg' = <<i>>
    /\ tree_op' = "find_overlaps"
    /\ UNCHANGED <<intervals, trie_vars, scan_vars, range_vars, sort_ties>>

\* ------------------------------------------- parse_text, statement by statement

\* parse_text called by thread t on a compiled automaton: check_postprocess
\* finds d_postprocessed set, and the locals pos, cur_state and
\* collected_emits are initialised.
BeginScan(t, the_text) ==
    /\ halted = "no"
    /\ d_postprocessed
    /\ scanners[t].pc /= "scanning"
    /\ scanners' = [scanners EXCEPT ![t] =
           [pc |-> "scanning", text |-> the_text, pos |-> 0, cur_state |-> Root,
            collected_emits |-> <<>>]]
    /\ UNCHANGED <<trie_vars, tree_vars, range_vars, sort_ties>>

\* A scan step in which the threads share one cursor: the state reached is
\* written to every thread that scans.
ScanCharShared(t) ==
    /\ halted = "no"
    /\ scanners[t].pc = "scanning"
    /\ scanners[t].pos < Len(scanners[t].text)
    /\ LET my == scanners[t]
           c == IF d_config.d_case_insensitive THEN tolower(my.text[my.pos + 1])
                ELSE my.text[my.pos + 1]
           next == get_state(states, my.cur_state, c)
       IN  /\ next /= NullPtr
           /\ scanners' = [u \in Threads |->
                  IF u = t
                  THEN [my EXCEPT !.cur_state = next, !.pos = my.pos + 1,
                            !.collected_emits = @ \o store_emits(my.pos, states[next].d_emits)]
                  ELSE IF scanners[u].pc = "scanning"
                       THEN [scanners[u] EXCEPT !.cur_state = next]
                       ELSE scanners[u]]
           /\ UNCHANGED <<trie_vars, tree_vars, range_vars, sort_ties>>

\* One pass of the for loop of parse_text in thread t.
ScanChar(t) ==
    /\ halted = "no"
    /\ scanners[t].pc = "scanning"
    /\ scanners[t].pos < Len(scanners[t].text)
    /\ LET my == scanners[t]
           c == IF d_config.d_case_insensitive THEN tolower(my.text[my.pos + 1])
                ELSE my.text[my.pos + 1]
           next == get_state(states, my.cur_state, c)
       IN  IF next = NullPtr
           THEN Halt("segv")
           ELSE /\ scanners' = [scanners EXCEPT ![t] =
                       [my EXCEPT !.cur_state = next, !.pos = my.pos + 1,
                            !.collected_emits = @ \o store_emits(my.pos, states[next].d_emits)]]
                /\ UNCHANGED <<trie_vars, tree_vars, range_vars, sort_ties>>

\* The rest of parse_text in thread t: the two filters and the return.
EndScan(t) ==
    /\ halted = "no"
    /\ scanners[t].pc = "scanning"
    /\ scanners[t].pos = Len(scanners[t].text)
    /\ LET my == scanners[t]
           whole == IF d_config.d_only_whole_words
                    THEN remove_partial_matches(my.text, my.collected_emits)
                    ELSE my.collected_emits
           result == IF ~d_config.d_allow_overlaps
                     THEN remove_overlaps_of(node(whole), whole, sort_ties) ELSE whole
       IN  scanners' = [scanners EXCEPT ![t] =
               [my EXCEPT !.pc = "done", !.collected_emits = result]]
    /\ UNCHANGED <<trie_vars, tree_vars, range_vars, sort_ties>>

\* ---------------------------------------------------------- specifications

\* The whole interface on the keywords "", "a" and "aa" and the texts over
\* a and A.
Keywords == {<<>>, <<97>>, <<97, 97>>}
Texts == SeqsUpTo({97, 65}, MaxTextLen)

Next ==
    \/ \E keyword \in Keywords :
          ~d_postprocessed /\ d_num_keywords < MaxKeywords /\ Insert(keyword)
    \/ case_insensitive
    \/ remove_overlaps
    \/ only_whole_words
    \/ remove_substrings
    \/ store_states_in_bfs_order
    \/ CheckPostprocess
    \/ \E the_text \in Texts : ParseText(the_text)

Spec == Init /\ [][Next]_vars

\* Closed intervals within 0..MaxPos.
Intervals == {i \in [d_start : 0..MaxPos, d_end : 0..MaxPos] : i.d_start <= i.d_end}

NextTree ==
    \/ \E i \in Intervals : PushInterval(i)
    \/ RemoveOverlaps
    \/ \E i \in Intervals : FindOverlaps(i)

SpecTree == Init /\ [][NextTree]_vars

\* Default matching over a and b: distinct keywords of one or two letters,
\* every text up to MatchTextLen.
MatchKeywordSet == SeqsUpTo({97, 98}, 2) \ {<<>>}
MatchTexts == SeqsUpTo({97, 98}, MatchTextLen)

NextMatch ==
    \/ \E keyword \in MatchKeywordSet \ Range(inserted) :
          ~d_postprocessed /\ d_num_keywords < MatchKeywords /\ Insert(keyword)
    \/ CheckPostprocess
    \/ \E the_text \in MatchTexts : ParseText(the_text)

SpecMatch == Init /\ [][NextMatch]_vars

\* The keywords he, she, hers and his, each inserted at most once, and the
\* texts "ushers", "he" and "hers".
he == <<104, 101>>
she == <<115, 104, 101>>
hers == <<104, 101, 114, 115>>
his == <<104, 105, 115>>
ushers == <<117, 115, 104, 101, 114, 115>>

NextUshers ==
    \/ \E keyword \in {he, she, hers, his} \ Range(inserted) :
          ~d_postprocessed /\ Insert(keyword)
    \/ remove_overlaps
    \/ remove_substrings
    \/ CheckPostprocess
    \/ \E the_text \in {ushers, he, hers} : ParseText(the_text)

SpecUshers == Init /\ [][NextUshers]_vars

\* The keywords cat and a, each inserted at most once; the texts "category"
\* and "the cat sat" and every text over a, t and the space up to WordTextLen.
cat == <<99, 97, 116>>
category == <<99, 97, 116, 101, 103, 111, 114, 121>>
the_cat_sat == <<116, 104, 101, 32, 99, 97, 116, 32, 115, 97, 116>>
WordTexts == {category, the_cat_sat} \cup SeqsUpTo({97, 116, 32}, WordTextLen)

NextWords ==
    \/ \E keyword \in {cat, <<97>>} \ Range(inserted) :
          ~d_postprocessed /\ Insert(keyword)
    \/ only_whole_words
    \/ remove_overlaps
    \/ CheckPostprocess
    \/ \E the_text \in WordTexts : ParseText(the_text)

SpecWords == Init /\ [][NextWords]_vars

\* Two threads that scan one automaton side by side: the keywords a, ab and
\* b, each inserted at most once, case_insensitive and remove_overlaps before
\* the compilation, and the texts "ab", "Ab" and "bab".
ScanKeywords == {<<97>>, <<97, 98>>, <<98>>}
ScanTexts == {<<97, 98>>, <<65, 98>>, <<98, 97, 98>>}

NextScan ==
    \/ \E keyword \in ScanKeywords \ Range(inserted) :
          ~d_postprocessed /\ Insert(keyword)
    \/ ~d_postprocessed /\ case_insensitive
    \/ ~d_postprocessed /\ remove_overlaps
    \/ CheckPostprocess
    \/ \E t \in Threads, the_text \in ScanTexts : BeginScan(t, the_text)
    \/ \E t \in Threads : ScanChar(t)
    \/ \E t \in Threads : EndScan(t)

SpecScan == Init /\ [][NextScan]_vars

\* Failure links over a and b: distinct keywords of up to three letters,
\* substrings allowed or disallowed before the compilation, and every text
\* of up to two letters.
FailKeywordSet == SeqsUpTo({97, 98}, 3) \ {<<>>}
FailTexts == SeqsUpTo({97, 98}, 2)

NextFail ==
    \/ \E keyword \in FailKeywordSet \ Range(inserted) :
          ~d_postprocessed /\ d_num_keywords < FailKeywords /\ Insert(keyword)
    \/ ~d_postprocessed /\ remove_substrings
    \/ CheckPostprocess
    \/ \E the_text \in FailTexts : ParseText(the_text)

SpecFail == Init /\ [][NextFail]_vars

\* Tokens over a, b and x: the keywords a, ab and aab, each inserted at most
\* once, with overlaps allowed or removed, and every text up to TokenTextLen.
TokenKeywords == {<<97>>, <<97, 98>>, <<97, 97, 98>>}
TokenTexts == SeqsUpTo({97, 98, 120}, TokenTextLen)

NextTokens ==
    \/ \E keyword \in TokenKeywords \ Range(inserted) :
          ~d_postprocessed /\ Insert(keyword)
    \/ remove_overlaps
    \/ CheckPostprocess
    \/ \E the_text \in TokenTexts : Tokenise(the_text)

SpecTokens == Init /\ [][NextTokens]_vars

\* Ranges of keywords handed to insert(first, last): every range of up to
\* MaxRange keywords out of "", a and ab, the empty range and ranges that
\* repeat a keyword included, with substrings allowed or disallowed.
RangeKeywords == {<<>>, <<97>>, <<97, 98>>}
Ranges == SeqsUpTo(RangeKeywords, MaxRange)

NextRange ==
    \/ ~d_postprocessed /\ range_call.pc = "idle" /\ remove_substrings
    \/ \E range \in Ranges : range_call.pc = "idle" /\ BeginInsertRange(range)
    \/ InsertRangeStep

SpecRange == Init /\ [][NextRange]_vars

\* Inserts alone, before any compilation: the keywords "", a, ab and b in
\* every order and with repeats, substrings allowed or disallowed, until
\* MaxInserts keywords have been accepted.
InsertKeywords == {<<>>, <<97>>, <<97, 98>>, <<98>>}

NextInsert ==
    \/ \E keyword \in InsertKeywords :
          d_num_keywords < MaxInserts /\ Insert(keyword)
    \/ remove_substrings

SpecInsert == Init /\ [][NextInsert]_vars

\* ------------------------------------------------------------------ claims

\* What a scan with the flags as constructed reports: every flag but
\* d_store_states_in_bfs_order, which no scan reads.
DefaultMatching ==
    /\ d_config.d_allow_overlaps /\ d_config.d_allow_substrings
    /\ ~d_config.d_only_whole_words /\ ~d_config.d_case_insensitive
    /\ config_at_postprocess.d_allow_substrings

\* An emit without its keyword index.
Occurrence(e) == <<e.d_start, e.d_end, e.d_keyword>>

\* Every keyword looked for at every offset of the text.
NaiveSearch(keywords, t) ==
    {<<s, s + Len(kw) - 1, kw>> :
        <<s, kw>> \in {x \in (0..Len(t)) \X keywords :
                          /\ x[1] + Len(x[2]) <= Len(t)
                          /\ SubSeq(t, x[1] + 1, x[1] + Len(x[2])) = x[2]}}

DistinctKeywords ==
    \A j, k \in 1..Len(inserted) : inserted[j] = inserted[k] => j = k

\* C1: with the default configuration and pairwise distinct non-empty
\* keywords, parse_text returns one emit for every occurrence of a keyword in
\* the text and no other emit: the emits are those of a naive search.
C1_ScanIsNaiveSearch ==
    (op = "parse_text" /\ DefaultMatching /\ DistinctKeywords) =>
        /\ {Occurrence(collected[k]) : k \in 1..Len(collected)}
               = NaiveSearch(Range(inserted), text)
        /\ \A j, k \in 1..Len(collected) :
               Occurrence(collected[j]) = Occurrence(collected[k]) => j = k

\* C1 witness: a scan reported two keywords ending at the same offset, one
\* of them taken over from a failure state.
C1_Witness ==
    /\ op = "parse_text" /\ DefaultMatching /\ DistinctKeywords
    /\ \E j, k \in 1..Len(collected) :
           /\ collected[j].d_end = collected[k].d_end
           /\ collected[j].d_start < collected[k].d_start

\* The emit lies within the text.
InText(e) == 0 <= e.d_start /\ e.d_start <= e.d_end /\ e.d_end < Len(text)

\* The characters of t at the offsets of the emit.
Slice(t, e) == SubSeq(t, e.d_start + 1, e.d_end + 1)

\* C2 as claimed: under any configuration every emit lies within the text
\* and the text between its offsets is its keyword, character for character.
C2_EmitIsTextSlice ==
    op = "parse_text" =>
        \A k \in 1..Len(collected) :
            InText(collected[k]) /\ Slice(text, collected[k]) = collected[k].d_keyword

\* C2 amended: under any configuration every emit lies within the text, and
\* its keyword is the text between its offsets, lower-cased first when
\* case_insensitive is set.
C2_EmitIsScannedSlice ==
    op = "parse_text" =>
        \A k \in 1..Len(collected) :
            /\ InText(collected[k])
            /\ Slice(IF d_config.d_case_insensitive THEN lower_text(text) ELSE text,
                     collected[k]) = collected[k].d_keyword

\* C2 witness: a case-insensitive scan reported a keyword over text that is
\* written differently.
C2_Witness ==
    /\ op = "parse_text" /\ d_config.d_case_insensitive
    /\ \E k \in 1..Len(collected) :
           Slice(text, collected[k]) /= collected[k].d_keyword

\* No two intervals of the collection are equal.
PairwiseDistinct(s) == \A j, k \in 1..Len(s) : equal(s[j], s[k]) => j = k

\* How often the interval is in the collection.
Count(s, i) == Cardinality({k \in 1..Len(s) : equal(s[k], i)})

\* C3: of pairwise distinct intervals, remove_overlaps returns a subset in
\* which no two intervals overlap, also when intervals share their start.
C3_NoOverlapLeft ==
    (tree_op = "remove_overlaps" /\ PairwiseDistinct(intervals)) =>
        /\ \A k \in 1..Len(tree_ret) : Count(tree_ret, tree_ret[k]) <= Count(intervals, tree_ret[k])
        /\ \A j, k \in 1..Len(tree_ret) :
               j /= k => ~overlaps_with(tree_ret[j], tree_ret[k])

\* C4: every interval remove_overlaps drops overlaps an interval it keeps.
C4_DroppedOverlapsKept ==
    tree_op = "remove_overlaps" =>
        \A k \in 1..Len(intervals) :
            Count(tree_ret, intervals[k]) < Count(intervals, intervals[k]) =>
                \E j \in 1..Len(tree_ret) : overlaps_with(intervals[k], tree_ret[j])

\* C4 witness: remove_overlaps dropped an interval and kept two.
C4_Witness ==
    /\ tree_op = "remove_overlaps"
    /\ Len(tree_ret) < Len(intervals)
    /\ Len(tree_ret) >= 2

\* What the scan of the last text collects before any filter runs.
UnfilteredScan ==
    scan_from(states, d_config.d_case_insensitive, text, 0, Root, <<>>).emits

\* A letter of the "C" locale.
Alphabetic(c) == c \in 65..90 \cup 97..122

\* Neither the character before the emit nor the one after it is a letter.
StandsAlone(t, e) ==
    /\ e.d_start > 0 => ~Alphabetic(t[e.d_start])
    /\ e.d_end + 1 < Len(t) => ~Alphabetic(t[e.d_end + 2])

\* C5: with only_whole_words set and overlaps allowed, parse_text returns
\* exactly the emits of the unfiltered scan that have no letter right before
\* and no letter right after them, in scan order; the keyword cat gives no
\* emit in "category" and the one emit [4, 6] in "the cat sat".
C5_WholeWordsOnly ==
    (op = "parse_text" /\ d_config.d_only_whole_words /\ d_config.d_allow_overlaps) =>
        /\ collected = SelectSeq(UnfilteredScan, LAMBDA e : StandsAlone(text, e))
        /\ (inserted = <<cat>> /\ text = category) => collected = <<>>
        /\ (inserted = <<cat>> /\ text = the_cat_sat) =>
               collected = <<[d_start |-> 4, d_end |-> 6, d_keyword |-> cat, d_index |-> 0]>>

\* C5 witness: a whole-word scan kept an emit and dropped another.
C5_Witness ==
    /\ op = "parse_text" /\ d_config.d_only_whole_words /\ d_config.d_allow_overlaps
    /\ Len(collected) > 0
    /\ Len(collected) < Len(UnfilteredScan)

\* The scan that returned last ran on an automaton compiled with substrings
\* disallowed from exactly the keywords he and hers.
OnlyHeAndHers ==
    /\ op = "parse_text"
    /\ Range(inserted) = {he, hers}
    /\ ~config_at_postprocess.d_allow_substrings

\* The occurrences the last scan returned, in the order returned.
Occurrences == [k \in 1..Len(collected) |-> Occurrence(collected[k])]

\* C6 as claimed: with substrings disallowed and the keywords he and hers, a
\* text that contains "hers" gives no emit for he, and the text "he" gives an
\* emit for he.
C6_HeAloneStillReported ==
    OnlyHeAndHers =>
        /\ text \in {hers, ushers} => \A k \in 1..Len(collected) : collected[k].d_keyword /= he
        /\ text = he => \E k \in 1..Len(collected) : collected[k].d_keyword = he

\* C6 amended: with substrings disallowed and the keywords he and hers, no
\* scan gives an emit for he, neither inside "hers" nor on its own: the text
\* "he" gives no emit at all, and every scan gives the occurrences of hers
\* and nothing else.
C6_PrefixKeywordNeverReported ==
    OnlyHeAndHers =>
        /\ \A k \in 1..Len(collected) : collected[k].d_keyword /= he
        /\ text = he => collected = <<>>
        /\ Range(Occurrences) = NaiveSearch({hers}, text)
        /\ Len(collected) = Cardinality(NaiveSearch({hers}, text))

\* C6 witness: the text "he" was scanned for he and hers with substrings
\* disallowed, and nothing was reported.
C6_Witness ==
    OnlyHeAndHers /\ text = he /\ collected = <<>>

\* The text "ushers" was scanned for he, she, hers and his, with substrings
\* allowed when the automaton was compiled.
UshersScanned ==
    /\ op = "parse_text" /\ text = ushers
    /\ Range(inserted) = {he, she, hers, his}
    /\ config_at_postprocess.d_allow_substrings

\* C7 as claimed: the scan of "ushers" with overlaps allowed has an emit for
\* he that ends at 4, one for she over [1, 3] and one for hers over [1, 4].
C7_UshersOffsetsAsClaimed ==
    (UshersScanned /\ d_config.d_allow_overlaps) =>
        /\ \E k \in 1..Len(collected) :
               collected[k].d_keyword = he /\ collected[k].d_end = 4
        /\ <<1, 3, she>> \in Range(Occurrences)
        /\ <<1, 4, hers>> \in Range(Occurrences)

\* C7 amended: the scan of "ushers" with overlaps allowed returns she over
\* [1, 3], he over [2, 3] and hers over [2, 5], in this order and nothing
\* else.
C7_UshersOffsets ==
    (UshersScanned /\ d_config.d_allow_overlaps) =>
        Occurrences = <<<<1, 3, she>>, <<2, 3, he>>, <<2, 5, hers>>>>

\* C7 witness: "ushers" was scanned with overlaps allowed and two emits that
\* overlap were returned together.
C7_Witness ==
    /\ UshersScanned /\ d_config.d_allow_overlaps
    /\ \E j, k \in 1..Len(collected) :
           j /= k /\ overlaps_with(collected[j], collected[k])

\* C8: with remove_overlaps set, the scan of "ushers" for he, she, hers and
\* his returns exactly one emit, the longest match, hers.
C8_UshersLongestOnly ==
    (UshersScanned /\ ~d_config.d_allow_overlaps) =>
        /\ Len(collected) = 1
        /\ collected[1].d_keyword = hers
        /\ \A kw \in {he, she, his} : Len(kw) < Len(collected[1].d_keyword)

\* C8 witness: "ushers" was scanned with remove_overlaps set and hers came
\* back.
C8_Witness ==
    /\ UshersScanned /\ ~d_config.d_allow_overlaps
    /\ \E k \in 1..Len(collected) : collected[k].d_keyword = hers

\* C9: once the automaton is compiled, a further call of check_postprocess,
\* directly or through parse_text, leaves every state's index, failure link
\* and emits, the state count and the two BFS lists as they are, and a
\* parse_text that follows a parse_text of the same text returns the same
\* emits.
C9_CompiledOnce ==
    [][(d_postprocessed /\ op' \in {"check_postprocess", "parse_text"}) =>
           /\ d_postprocessed'
           /\ states' = states
           /\ d_state_count' = d_state_count
           /\ d_states_in_bfs_order' = d_states_in_bfs_order
           /\ d_final_states_in_bfs_order' = d_final_states_in_bfs_order
           /\ (op = "parse_text" /\ op' = "parse_text" /\ text' = text) =>
                  collected' = collected]_vars

\* C9 witness: a scan returned emits on an automaton that was compiled under
\* another configuration than the one set now, so after its compilation.
C9_Witness ==
    /\ d_postprocessed /\ op = "parse_text"
    /\ d_config /= config_at_postprocess
    /\ Len(collected) > 0

\* C10: with substrings disallowed, the insert of a keyword whose state has
\* an emit already returns the null handle and leaves the keyword count, the
\* states and their emits as they are.
C10_DuplicateRejected ==
    [][\A keyword \in Keywords \ {<<>>} :
           (/\ ~d_config.d_allow_substrings
            /\ keyword \in DOMAIN states
            /\ Len(states[keyword].d_emits) > 0
            /\ Insert(keyword)) =>
               /\ ret' = NullPtr
               /\ d_num_keywords' = d_num_keywords
               /\ states' = states
               /\ inserted' = inserted]_vars

\* C10 witness: an insert was rejected with a keyword in the trie.
C10_Witness ==
    /\ op = "insert" /\ ret = NullPtr
    /\ ~d_config.d_allow_substrings
    /\ d_num_keywords > 0

\* The (keyword, index) entries of every state of the trie.
StoredEmits ==
    UNION {Range(states[p].d_emits) : p \in DOMAIN states}

\* C11: no two emit entries stored in the trie have the same keyword under
\* different indices, and no scan reports a keyword under two indices.
C11_OneIndexPerKeyword ==
    /\ \A a, b \in StoredEmits : a[1] = b[1] => a[2] = b[2]
    /\ op = "parse_text" =>
           \A j, k \in 1..Len(collected) :
               collected[j].d_keyword = collected[k].d_keyword =>
                   collected[j].d_index = collected[k].d_index

\* C12: a setter called after the first compilation changes no later scan:
\* every parse_text returns what it returns under the configuration the
\* automaton was compiled with.
C12_SettersFrozenAfterCompile ==
    op = "parse_text" =>
        collected = parse_compiled(states, config_at_postprocess, text, sort_ties).emits

\* The fields of the automaton: the states with their indices, failure links
\* and emits, the counters, the lists, the configuration, the compiled flag.
automaton_vars ==
    <<states, d_config, d_postprocessed, d_num_keywords, d_state_count,
      d_states_in_bfs_order, d_final_states_in_bfs_order>>

\* C13: on a compiled automaton no step of a parse_text call changes a field
\* of the automaton, and a call that ran interleaved with the steps of
\* another returns what the same call returns when it runs alone.
C13_ScanMutatesNothing ==
    /\ [][(d_postprocessed /\ (op' = "parse_text" \/ scanners' /= scanners)) =>
              UNCHANGED automaton_vars]_vars
    /\ [](\A t \in Threads :
              scanners[t].pc = "done" =>
                  scanners[t].collected_emits =
                      parse_compiled(states, d_config, scanners[t].text, sort_ties).emits)

\* C13 witness: a call has returned emits while a call of another thread on
\* another text is in the middle of its loop.
C13_Witness ==
    \E t, u \in Threads :
        /\ scanners[t].pc = "done" /\ Len(scanners[t].collected_emits) > 1
        /\ scanners[u].pc = "scanning" /\ scanners[u].pos > 0
        /\ scanners[u].text /= scanners[t].text

\* C14: the insert of the empty keyword returns the root and changes
\* nothing: no state is created, no state gets an emit, the root included,
\* and the keyword count stays.
C14_EmptyInsertNoEffect ==
    [][Insert(<<>>) =>
           /\ ret' = Root
           /\ DOMAIN states' = DOMAIN states
           /\ \A p \in DOMAIN states : states'[p].d_emits = states[p].d_emits
           /\ states' = states
           /\ d_num_keywords' = d_num_keywords
           /\ inserted' = inserted
           /\ UNCHANGED <<d_config, d_postprocessed, d_state_count,
                          d_states_in_bfs_order, d_final_states_in_bfs_order>>]_vars

\* C14 witness: the insert of the empty keyword returned the root of a trie
\* that holds a keyword.
C14_Witness ==
    /\ op = "insert" /\ ret = Root
    /\ d_num_keywords > 0
    /\ states[Root].d_emits = <<>>

\* C15: whatever inserts and setters come before the first compilation, the
\* assertion emit_count < 2 of remove_prefixes_from_state never fails: no
\* compilation ends at it.
C15_EmitCountAssertionHolds ==
    halted /= "assert"

\* C16: neither the construction of the failure links nor a scan follows a
\* failure link that is null, the one of the root included: no call ends at
\* a null failure link.
C16_NoNullFailureFollowed ==
    halted /= "segv"

\* The prefixes of the inserted keywords, the empty one included.
KeywordPrefixes ==
    {<<>>} \cup UNION {{SubSeq(inserted[k], 1, n) : n \in 1..Len(inserted[k])} :
                          k \in 1..Len(inserted)}

\* The proper suffixes of path p that are a prefix of an inserted keyword.
SuffixStates(p) ==
    {SubSeq(p, k, Len(p)) : k \in 2..(Len(p) + 1)} \cap KeywordPrefixes

\* The longest of them.
LongestSuffixState(p) ==
    CHOOSE s \in SuffixStates(p) : \A u \in SuffixStates(p) : Len(u) <= Len(s)

\* C17 as claimed: after the compilation, under any configuration, the
\* failure link of every state but the root is the longest proper suffix of
\* its path that is a prefix of an inserted keyword.
C17_FailureIsLongestSuffix ==
    d_postprocessed =>
        \A p \in DOMAIN states \ {Root} : states[p].d_failure = LongestSuffixState(p)

\* C17 amended: after a compilation with substrings allowed the failure link
\* of every state but the root is the longest proper suffix of its path that
\* is a prefix of an inserted keyword; after one with substrings disallowed
\* it is a proper suffix that is such a prefix, not always the longest.
C17_FailureIsSuffixState ==
    d_postprocessed =>
        \A p \in DOMAIN states \ {Root} :
            /\ states[p].d_failure \in SuffixStates(p)
            /\ config_at_postprocess.d_allow_substrings =>
                   states[p].d_failure = LongestSuffixState(p)

\* C17 witness: an automaton compiled with substrings allowed has a state
\* whose failure link is a state of depth two.
C17_Witness ==
    /\ d_postprocessed /\ config_at_postprocess.d_allow_substrings
    /\ \E p \in DOMAIN states \ {Root} : Len(states[p].d_failure) = 2

\* Every state but the root has a failure link to a state of smaller depth.
FailureLinksDescend ==
    \A p \in DOMAIN states \ {Root} :
        states[p].d_failure /= NullPtr /\ Len(states[p].d_failure) < Len(p)

\* C18: under every configuration the compilation and the scan run to their
\* end: the fall-back loops of construct_failure_states and get_state reach
\* a state with a transition on the character and never run off a null
\* link, and after the compilation every state but the root has a failure
\* link to a state of strictly smaller depth.
C18_FallBackLoopsEnd ==
    /\ halted /= "segv"
    /\ d_postprocessed => FailureLinksDescend

\* A fragment token with the given text, and the match token of an emit.
Fragment(str) == [d_type |-> "TYPE_FRAGMENT", d_fragment |-> str, d_emit |-> empty_emit]
Match(e) == [d_type |-> "TYPE_MATCH", d_fragment |-> Slice(text, e), d_emit |-> e]

\* The text at the offsets from..(to - 1), empty when there is none.
Gap(from, to) == IF from < to THEN SubSeq(text, from + 1, to) ELSE <<>>

RECURSIVE ExpectedTokens(_, _)
\* The tokens for the emits k, k + 1, ... of the last scan when the match
\* before them ended at prev_end: a fragment for a non-empty gap, the match,
\* and at the end a fragment for the text that is left.
ExpectedTokens(k, prev_end) ==
    IF k > Len(collected)
    THEN IF Gap(prev_end + 1, Len(text)) /= <<>>
         THEN <<Fragment(Gap(prev_end + 1, Len(text)))>> ELSE <<>>
    ELSE LET e == collected[k]
         IN  (IF Gap(prev_end + 1, e.d_start) /= <<>>
              THEN <<Fragment(Gap(prev_end + 1, e.d_start))>> ELSE <<>>)
             \o <<Match(e)>> \o ExpectedTokens(k + 1, e.d_end)

\* C19: with overlaps allowed or removed, tokenise returns, for the emits of
\* parse_text in order, a fragment exactly where unmatched text lies between
\* the end of the match before (or the start of the text) and the start of
\* the match, holding that text, then the match, and at the end a fragment
\* exactly when text is left after the last match.
C19_TokensFollowEmits ==
    op = "tokenise" => tokens = ExpectedTokens(1, -1)

\* Closed ranges a and b have an offset in common.
Overlap(a, b) == a.d_start <= b.d_end /\ a.d_end >= b.d_start

\* C20: find_overlaps(i) on the tree over a collection returns exactly the
\* intervals of the collection that overlap i and differ from i in start or
\* end, each as often as the collection holds it.
C20_FindOverlapsExact ==
    tree_op = "find_overlaps" =>
        LET i == tree_arg[1] IN
        \A x \in Range(intervals) \cup Range(tree_ret) :
            Count(tree_ret, x) =
                IF Overlap(x, i) /\ x /= i THEN Count(intervals, x) ELSE 0

\* C20 witness: find_overlaps returned intervals from both sides of the
\* root's point and left one of the collection out.
C20_Witness ==
    /\ tree_op = "find_overlaps"
    /\ Len(tree_ret) >= 2
    /\ Len(tree_ret) < Len(intervals)
    /\ \E j, k \in 1..Len(tree_ret) : tree_ret[j].d_end < tree_ret[k].d_start

\* C21: insert(first, last) comes to an end for every finite range and
\* inserts each keyword of [first, last) exactly once, in order, as if
\* insert(keyword) had been called on each element.  So its iterator never
\* passes last, nothing behind the range is read, and when the call has
\* returned the iterator stands at last.
C21_RangeInsertStopsAtLast ==
    /\ halted /= "segv"
    /\ range_call.it <= range_call.last
    /\ range_call.pc = "returned" => range_call.it = range_call.last

\* The parent of a state that is not the root.
Parent(p) == SubSeq(p, 1, Len(p) - 1)

\* C22: after the compilation the states, the root included, carry pairwise
\* distinct indices 0..n-1 in breadth-first visitation order: the root has
\* index 0, every state's index is greater than its parent's, a state of
\* smaller depth has a smaller index than one of larger depth, states of one
\* depth follow the order of their parents, and num_states() is n, the
\* number of states.  (No keyword is inserted after the compilation.)
C22_BfsIndices ==
    d_postprocessed =>
        LET n == Cardinality(DOMAIN states)
            idx(p) == states[p].d_idx
        IN  /\ {idx(p) : p \in DOMAIN states} = 0..(n - 1)
            /\ \A p, q \in DOMAIN states : p /= q => idx(p) /= idx(q)
            /\ idx(Root) = 0
            /\ \A p \in DOMAIN states \ {Root} : idx(p) > idx(Parent(p))
            /\ \A p, q \in DOMAIN states : Len(p) < Len(q) => idx(p) < idx(q)
            /\ \A p, q \in DOMAIN states \ {Root} :
                  idx(Parent(p)) < idx(Parent(q)) => idx(p) < idx(q)
            /\ d_state_count = n

\* A compiled trie of two branches, one of them three states deep.
C22_Witness ==
    /\ d_postprocessed
    /\ Cardinality({p \in DOMAIN states : Len(p) = 1}) = 2
    /\ \E p \in DOMAIN states : Len(p) = 3

\* An insert of keyword was accepted: it returned the state of the keyword,
\* not the null handle and not the root.
Accepted(keyword) == keyword /= <<>> /\ ret' = keyword

\* C23: after any sequence of inserts the k-th accepted keyword has index
\* k-1 and num_keywords() is the number of accepted inserts: an accepted
\* insert stores its keyword under the count of the inserts accepted before
\* it and raises the count by one, a rejected or empty-keyword insert leaves
\* the count as it is.
C23_SequentialIndices ==
    /\ [][\A keyword \in InsertKeywords :
              Insert(keyword) =>
                  IF Accepted(keyword)
                  THEN /\ inserted' = Append(inserted, keyword)
                       /\ d_num_keywords' = d_num_keywords + 1
                       /\ states'[keyword].d_emits =
                              Append(IF keyword \in DOMAIN states
                                     THEN states[keyword].d_emits ELSE <<>>,
                                     <<keyword, Len(inserted)>>)
                  ELSE /\ inserted' = inserted
                       /\ d_num_keywords' = d_num_keywords]_vars
    /\ [](/\ d_num_keywords = Len(inserted)
          /\ ~d_postprocessed =>
                 /\ \A k \in 1..Len(inserted) :
                        <<inserted[k], k - 1>> \in Range(states[inserted[k]].d_emits)
                 /\ Cardinality(StoredEmits) = Len(inserted))

\* C23 witness: with substrings disallowed a second keyword was accepted and
\* then a repeated one rejected, which left the count at two.
C23_Witness ==
    /\ op = "insert" /\ ret = NullPtr
    /\ ~d_config.d_allow_substrings
    /\ d_num_keywords = 2
    /\ inserted = <<<<97>>, <<97, 98>>>>
    /\ <<<<97, 98>>, 1>> \in Range(states[<<97, 98>>].d_emits)

====
